---- MODULE Spec2Model ----
(***************************************************************************)
(* Model of src/app/to_subjects.py: process_courses groups the lines of a  *)
(* text block "SUBJECT-NUMBER" by subject; the module-level driver calls   *)
(* it on the constant `courses`, dumps the mapping as indented JSON to     *)
(* subject_data.json and prints a confirmation line.                       *)
(*                                                                         *)
(* Text is a sequence of one-character strings.  A Python dict is a        *)
(* sequence of entries [key, val] in insertion order with unique keys.     *)
(***************************************************************************)
EXTENDS Integers, Sequences, FiniteSets, TLC

\* ---------------------------------------------------------------- bounds
\* Largest number of text lines joined into the input block.
MaxLines == 3

\* ------------------------------------------------------------ characters
NL == "\n"
SEP == "-"
QUOTE == "\""
BSLASH == "\\"

\* The characters str.strip() removes when called without an argument.
Whitespace == {" ", NL, "\t", "\r"}

\* Line boundaries of str.splitlines() that occur in the modelled alphabet.
LineBreaks == {NL}

\* ------------------------------------------------------- string methods
RECURSIVE LStrip(_)
LStrip(s) ==
    IF s = <<>> \/ Head(s) \notin Whitespace THEN s ELSE LStrip(Tail(s))

RECURSIVE RStrip(_)
RStrip(s) ==
    IF s = <<>> \/ s[Len(s)] \notin Whitespace THEN s
    ELSE RStrip(SubSeq(s, 1, Len(s) - 1))

\* str.strip(): leading and trailing whitespace removed, interior kept.
Strip(s) == RStrip(LStrip(s))

\* Index of the first character of s that lies in cs, 0 when there is none.
FirstIndex(s, cs) ==
    IF \E n \in 1..Len(s) : s[n] \in cs
    THEN CHOOSE n \in 1..Len(s) :
             s[n] \in cs /\ \A m \in 1..(n - 1) : s[m] \notin cs
    ELSE 0

\* str.splitlines(): the empty text has no lines, and a final line break
\* does not open a further empty line.
RECURSIVE SplitLines(_)
SplitLines(s) ==
    IF s = <<>> THEN <<>>
    ELSE LET k == FirstIndex(s, LineBreaks)
         IN  IF k = 0 THEN <<s>>
             ELSE <<SubSeq(s, 1, k - 1)>> \o SplitLines(SubSeq(s, k + 1, Len(s)))

\* Variant: split(sep, 1), cutting at the first occurrence only.
SplitAtFirst(s, sep) ==
    LET k == FirstIndex(s, {sep})
    IN  IF k = 0 THEN <<s>>
        ELSE <<SubSeq(s, 1, k - 1), SubSeq(s, k + 1, Len(s))>>

\* str.split(sep) with no maxsplit: cut at EVERY occurrence of sep; always
\* at least one part, empty parts kept.
RECURSIVE Split(_, _)
Split(s, sep) ==
    LET k == FirstIndex(s, {sep})
    IN  IF k = 0 THEN <<s>>
        ELSE <<SubSeq(s, 1, k - 1)>> \o Split(SubSeq(s, k + 1, Len(s)), sep)

\* ------------------------------------------------------------ dict model
Keys(d) == [n \in 1..Len(d) |-> d[n].key]
KeySet(d) == {d[n].key : n \in 1..Len(d)}
HasKey(d, k) == k \in KeySet(d)
Get(d, k) == d[CHOOSE n \in 1..Len(d) : d[n].key = k].val

\* Variant: the existing entry is assigned a fresh one-element list.
DictOverwrite(d, k, x) ==
    [n \in 1..Len(d) |->
        IF d[n].key = k THEN [key |-> k, val |-> <<x>>] ELSE d[n]]

\* course_dict[subject].append(course_num): the entry keeps its position.
DictAppend(d, k, x) ==
    [n \in 1..Len(d) |->
        IF d[n].key = k THEN [key |-> k, val |-> Append(d[n].val, x)] ELSE d[n]]

\* course_dict[subject] = [course_num] for a new key: inserted last.
DictInsert(d, k, x) == Append(d, [key |-> k, val |-> <<x>>])

\* Lines 11-14 of process_courses.
Accumulate(d, subject, course_num) ==
    IF HasKey(d, subject) THEN DictAppend(d, subject, course_num)
    ELSE DictInsert(d, subject, course_num)

\* ------------------------------------------------------------- json.dump
Indent == 2

RECURSIVE Spaces(_)
Spaces(n) == IF n = 0 THEN <<>> ELSE <<" ">> \o Spaces(n - 1)

RECURSIVE Concat(_)
Concat(ss) == IF ss = <<>> THEN <<>> ELSE Head(ss) \o Concat(Tail(ss))

\* Items joined by sep (a text), none before the first or after the last.
RECURSIVE JoinWith(_, _)
JoinWith(ss, sep) ==
    IF ss = <<>> THEN <<>>
    ELSE IF Len(ss) = 1 THEN ss[1]
    ELSE ss[1] \o sep \o JoinWith(Tail(ss), sep)

\* Variant: characters written as they are.
EscapeNothing(c) == <<c>>

\* The JSON escapes of the encoder for the characters of the alphabet.
EscapeChar(c) ==
    IF c = QUOTE THEN <<BSLASH, QUOTE>>
    ELSE IF c = BSLASH THEN <<BSLASH, BSLASH>>
    ELSE IF c = NL THEN <<BSLASH, "n">>
    ELSE IF c = "\t" THEN <<BSLASH, "t">>
    ELSE IF c = "\r" THEN <<BSLASH, "r">>
    ELSE <<c>>

EncodeString(s) ==
    <<QUOTE>> \o Concat([n \in 1..Len(s) |-> EscapeChar(s[n])]) \o <<QUOTE>>

\* A list at nesting level `level` with indent=2: one item per line.
EncodeList(v, level) ==
    IF v = <<>> THEN <<"[", "]">>
    ELSE LET inner == <<NL>> \o Spaces(Indent * (level + 1))
         IN  <<"[">> \o inner
             \o JoinWith([n \in 1..Len(v) |-> EncodeString(v[n])], <<",">> \o inner)
             \o <<NL>> \o Spaces(Indent * level) \o <<"]">>

\* json.dump(course_dict, json_file, indent=2): the text written.
Dumps(d) ==
    IF d = <<>> THEN <<"{", "}">>
    ELSE LET inner == <<NL>> \o Spaces(Indent)
         IN  <<"{">> \o inner
             \o JoinWith([n \in 1..Len(d) |->
                            EncodeString(d[n].key) \o <<":", " ">>
                            \o EncodeList(d[n].val, 1)],
                         <<",">> \o inner)
             \o <<NL>> \o <<"}">>

\* ------------------------------------------------------------ the inputs
\* Lines the input block is assembled from: well-formed lines of two
\* subjects, a repeated pair, a line whose fields need JSON escaping, an
\* empty and a whitespace-only line, and lines with zero and two separators.
LineChoices ==
    { <<"A", SEP, "1">>, <<"A", SEP, "2">>, <<"B", SEP, "1">>,
      <<QUOTE, SEP, BSLASH>>,
      <<>>, <<" ">>,
      <<"A", "1">>, <<"A", SEP, "1", SEP, "2">> }

LineSeqs == UNION {[1..n -> LineChoices] : n \in 0..MaxLines}

\* What subject_data.json may hold before the run.
Absent == [exists |-> FALSE, content |-> <<>>]
OldFiles ==
    { Absent,
      [exists |-> TRUE, content |-> <<"{", QUOTE, "Z", QUOTE, ":", "[", "]", "}">>] }

Message == "Data successfully written to subject_data.json."

\* ----------------------------------------------------------------- state
VARIABLES
    input_lines,  \* the text lines the block `courses` was assembled from
    courses,      \* the module constant `courses` / parameter course_list
    pc,           \* position of the run
    lines,        \* the list the for loop iterates over
    i,            \* index in `lines` of the next line to process
    course_dict,  \* the local dict of process_courses
    results,      \* the mappings returned so far, in call order
    json_file,    \* subject_data.json: [exists, content]
    old_file,     \* subject_data.json as it was before the run
    stdout,       \* the lines printed
    err           \* the uncaught exception, "None" while there is none

vars == <<input_lines, courses, pc, lines, i, course_dict, results, json_file, old_file,
          stdout, err>>

Init ==
    /\ input_lines \in LineSeqs
    /\ courses = JoinWith(input_lines, <<NL>>)
    /\ pc = "main"
    /\ lines = <<>>
    /\ i = 1
    /\ course_dict = <<>>
    /\ results = <<>>
    /\ json_file \in OldFiles
    /\ old_file = json_file
    /\ stdout = <<>>
    /\ err = "None"

\* -------------------------------------------------------- process_courses
\* Variant: the dict of the previous call is kept (a dict shared by calls).
StaleDict == course_dict

\* The dict a call starts from (line 8).
NewDict == <<>>

\* Lines 8-9: entry of process_courses(course_list).
Enter(course_list) ==
    /\ course_dict' = NewDict
    /\ lines' = SplitLines(Strip(course_list))
    /\ i' = 1
    /\ pc' = "loop"

\* Variant: the output file is opened for writing before the grouping.
CallAfterOpen ==
    /\ pc = "main"
    /\ Enter(courses)
    /\ json_file' = [exists |-> TRUE, content |-> <<>>]
    /\ UNCHANGED <<input_lines, courses, results, old_file, stdout, err>>

\* Line 18: the driver calls process_courses(courses).
Call ==
    /\ pc = "main"
    /\ Enter(courses)
    /\ UNCHANGED <<input_lines, courses, results, json_file, old_file, stdout, err>>

\* Lines 9-14: one iteration.  The unpacking of line 10 raises ValueError
\* unless split yields exactly two parts.
LoopStep ==
    /\ pc = "loop"
    /\ i <= Len(lines)
    /\ LET parts == Split(lines[i], SEP)
       IN  IF Len(parts) /= 2
           THEN /\ err' = "ValueError"
                /\ pc' = "raised"
                /\ UNCHANGED <<course_dict, i>>
           ELSE /\ course_dict' = Accumulate(course_dict, parts[1], parts[2])
                /\ i' = i + 1
                /\ UNCHANGED <<pc, err>>
    /\ UNCHANGED <<input_lines, courses, lines, results, json_file, old_file, stdout>>

\* Line 15: the loop is exhausted and the dict goes back to the caller,
\* which continues at `next`.
ReturnTo(next) ==
    /\ pc = "loop"
    /\ i > Len(lines)
    /\ results' = Append(results, course_dict)
    /\ pc' = next
    /\ UNCHANGED <<input_lines, courses, lines, i, course_dict, json_file, old_file, stdout, err>>

\* Line 15 and the assignment of line 18: the driver goes on to the open.
Return == ReturnTo("open")

\* ---------------------------------------------------------------- driver
\* Line 21: open(..., 'w') creates or truncates the file, or raises OSError
\* and leaves it alone.
Open ==
    /\ pc = "open"
    /\ \/ /\ json_file' = [exists |-> TRUE, content |-> <<>>]
          /\ pc' = "dump"
          /\ UNCHANGED err
       \/ /\ err' = "OSError"
          /\ pc' = "raised"
          /\ UNCHANGED json_file
    /\ UNCHANGED <<input_lines, courses, lines, i, course_dict, results, old_file, stdout>>

\* Line 22 and the close at the end of the with block: the whole text is
\* written, or the write fails after some prefix of it.
Dump ==
    /\ pc = "dump"
    /\ LET text == Dumps(results[1])
       IN  \/ /\ json_file' = [exists |-> TRUE, content |-> text]
              /\ pc' = "print"
              /\ UNCHANGED err
           \/ /\ \E n \in 0..(Len(text) - 1) :
                     json_file' = [exists |-> TRUE, content |-> SubSeq(text, 1, n)]
              /\ err' = "OSError"
              /\ pc' = "raised"
    /\ UNCHANGED <<input_lines, courses, lines, i, course_dict, results, old_file, stdout>>

\* Variant: the confirmation is printed in a finally clause, so also after
\* an exception.
ConfirmRegardless ==
    /\ pc \in {"print", "raised"}
    /\ stdout = <<>>
    /\ stdout' = Append(stdout, Message)
    /\ pc' = IF pc = "print" THEN "done" ELSE pc
    /\ UNCHANGED <<input_lines, courses, lines, i, course_dict, results, json_file, old_file, err>>

\* Line 24.
PrintConfirmation ==
    /\ pc = "print"
    /\ stdout' = Append(stdout, Message)
    /\ pc' = "done"
    /\ UNCHANGED <<input_lines, courses, lines, i, course_dict, results, json_file, old_file, err>>

Next == Call \/ LoopStep \/ Return \/ Open \/ Dump \/ PrintConfirmation

Spec == Init /\ [][Next]_vars

\* The interpreter runs the script statement after statement: once the
\* with block is left without an exception, the print of line 24 is
\* executed.
FairSpec == Spec /\ WF_vars(PrintConfirmation)

\* ------------------------------------------- process_courses called twice
\* A caller that applies process_courses to the same text a second time.
ReturnToCaller == ReturnTo("returned")

CallAgain ==
    /\ pc = "returned"
    /\ Len(results) = 1
    /\ Enter(courses)
    /\ UNCHANGED <<input_lines, courses, results, json_file, old_file, stdout, err>>

NextTwice == Call \/ LoopStep \/ ReturnToCaller \/ CallAgain

SpecTwice == Init /\ [][NextTwice]_vars

\* =================================================================
\* Reference notions of the properties, read off the input lines.
\* =================================================================
Blank(l) == \A n \in 1..Len(l) : l[n] \in Whitespace
SepCount(l) == Cardinality({n \in 1..Len(l) : l[n] = SEP})
WellFormedLine(l) == ~Blank(l) /\ SepCount(l) = 1
NonBlankLines == SelectSeq(input_lines, LAMBDA l : ~Blank(l))

\* Every non-blank line has exactly one separator.
WellFormedBlock ==
    \A n \in 1..Len(input_lines) :
        Blank(input_lines[n]) \/ WellFormedLine(input_lines[n])

SepAt(l) == CHOOSE n \in 1..Len(l) : l[n] = SEP
SubjectOf(l) == SubSeq(l, 1, SepAt(l) - 1)
NumberOf(l) == SubSeq(l, SepAt(l) + 1, Len(l))

\* The subjects of well-formed lines ls, each once, by first appearance.
RECURSIVE FirstSeen(_, _)
FirstSeen(ls, seen) ==
    IF ls = <<>> THEN <<>>
    ELSE LET sub == SubjectOf(Head(ls))
         IN  IF sub \in seen THEN FirstSeen(Tail(ls), seen)
             ELSE <<sub>> \o FirstSeen(Tail(ls), seen \cup {sub})

\* The course numbers of the lines of ls whose subject is sub, in order.
RECURSIVE NumbersFor(_, _)
NumbersFor(sub, ls) ==
    IF ls = <<>> THEN <<>>
    ELSE (IF SubjectOf(Head(ls)) = sub THEN <<NumberOf(Head(ls))>> ELSE <<>>)
         \o NumbersFor(sub, Tail(ls))

\* The mapping the grouping of well-formed lines ls is specified to give.
Grouped(ls) ==
    LET ks == FirstSeen(ls, {})
    IN  [n \in 1..Len(ks) |-> [key |-> ks[n], val |-> NumbersFor(ks[n], ls)]]

RECURSIVE TotalCount(_)
TotalCount(d) == IF d = <<>> THEN 0 ELSE Len(Head(d).val) + TotalCount(Tail(d))

Returned == Len(results) >= 1
GroupingFailed == pc = "raised" /\ err = "ValueError"
GroupingOver == Returned \/ GroupingFailed

\* A blank line with a well-formed line somewhere before and after it.
BlankBetween ==
    \E a, b, c \in 1..Len(input_lines) :
        /\ a < b /\ b < c
        /\ WellFormedLine(input_lines[a])
        /\ Blank(input_lines[b])
        /\ WellFormedLine(input_lines[c])

\* ---------------------------------------------------------- json parsing
JsonWs == {" ", NL, "\t", "\r"}
At(s, p) == IF p >= 1 /\ p <= Len(s) THEN s[p] ELSE "EOF"
Failed(p) == [ok |-> FALSE, val |-> <<>>, pos |-> p]

RECURSIVE SkipWs(_, _)
SkipWs(s, p) == IF At(s, p) \in JsonWs THEN SkipWs(s, p + 1) ELSE p

Unescape(c) ==
    IF c = "n" THEN NL ELSE IF c = "t" THEN "\t" ELSE IF c = "r" THEN "\r" ELSE c

\* The characters of a string literal after its opening quote.
RECURSIVE ParseChars(_, _, _)
ParseChars(s, p, acc) ==
    IF p > Len(s) THEN Failed(p)
    ELSE IF s[p] = QUOTE THEN [ok |-> TRUE, val |-> acc, pos |-> p + 1]
    ELSE IF s[p] = BSLASH
         THEN IF At(s, p + 1) \in {QUOTE, BSLASH, "/", "n", "t", "r"}
              THEN ParseChars(s, p + 2, Append(acc, Unescape(s[p + 1])))
              ELSE Failed(p)
    ELSE IF s[p] \in {NL, "\t", "\r"} THEN Failed(p)
    ELSE ParseChars(s, p + 1, Append(acc, s[p]))

ParseString(s, p) ==
    IF At(s, p) = QUOTE THEN ParseChars(s, p + 1, <<>>) ELSE Failed(p)

\* The items of an array of strings; p is at the first character of an item.
RECURSIVE ParseItems(_, _, _)
ParseItems(s, p, acc) ==
    LET r == ParseString(s, p)
        q == SkipWs(s, r.pos)
    IN  IF ~r.ok THEN Failed(p)
        ELSE IF At(s, q) = ","
             THEN ParseItems(s, SkipWs(s, q + 1), Append(acc, r.val))
        ELSE IF At(s, q) = "]"
             THEN [ok |-> TRUE, val |-> Append(acc, r.val), pos |-> q + 1]
        ELSE Failed(q)

ParseArray(s, p) ==
    IF At(s, p) /= "[" THEN Failed(p)
    ELSE LET q == SkipWs(s, p + 1)
         IN  IF At(s, q) = "]" THEN [ok |-> TRUE, val |-> <<>>, pos |-> q + 1]
             ELSE ParseItems(s, q, <<>>)

\* A repeated member name keeps its place and takes the later value.
DictSet(d, k, v) ==
    IF HasKey(d, k)
    THEN [n \in 1..Len(d) |-> IF d[n].key = k THEN [key |-> k, val |-> v] ELSE d[n]]
    ELSE Append(d, [key |-> k, val |-> v])

\* The members of an object; p is at the first character of a member.
RECURSIVE ParseMembers(_, _, _)
ParseMembers(s, p, acc) ==
    LET k == ParseString(s, p)
        c == SkipWs(s, k.pos)
        v == ParseArray(s, SkipWs(s, c + 1))
        q == SkipWs(s, v.pos)
    IN  IF ~k.ok \/ At(s, c) /= ":" THEN Failed(p)
        ELSE IF ~v.ok THEN Failed(c)
        ELSE IF At(s, q) = ","
             THEN ParseMembers(s, SkipWs(s, q + 1), DictSet(acc, k.val, v.val))
        ELSE IF At(s, q) = "}"
             THEN [ok |-> TRUE, val |-> DictSet(acc, k.val, v.val), pos |-> q + 1]
        ELSE Failed(q)

ParseObject(s, p) ==
    IF At(s, p) /= "{" THEN Failed(p)
    ELSE LET q == SkipWs(s, p + 1)
         IN  IF At(s, q) = "}" THEN [ok |-> TRUE, val |-> <<>>, pos |-> q + 1]
             ELSE ParseMembers(s, q, <<>>)

\* The text as one JSON object of arrays of strings, or a failure.
Loads(s) ==
    LET r == ParseObject(s, SkipWs(s, 1))
    IN  IF r.ok /\ SkipWs(s, r.pos) = Len(s) + 1
        THEN [ok |-> TRUE, val |-> r.val]
        ELSE [ok |-> FALSE, val |-> <<>>]

\* =================================================================
\* The properties.
\* =================================================================

\* C1: a blank line between two well-formed lines is skipped: the grouping
\* raises nothing and returns the mapping of the block without the blank
\* lines.
C1_BlankLineSkipped ==
    (WellFormedBlock /\ BlankBetween /\ GroupingOver)
        => (Returned /\ results[1] = Grouped(NonBlankLines))

\* What the code does instead: once a blank line stands between two
\* well-formed lines the unpacking of line 10 raises at it.
BlankBetweenRaises ==
    (WellFormedBlock /\ BlankBetween /\ GroupingOver)
        => (GroupingFailed /\ results = <<>> /\ Blank(lines[i]))

\* Without such a line a well-formed block is grouped as specified (blank
\* lines at either end are removed by the strip of line 9).
GroupsWhenNoBlankBetween ==
    (WellFormedBlock /\ ~BlankBetween /\ GroupingOver)
        => (Returned /\ results[1] = Grouped(NonBlankLines))

\* C2: a block with a non-blank line that has zero or more than one
\* separator never yields a mapping: every line the loop has consumed had
\* exactly one separator, the loop is never exhausted, the run gets no
\* further than the grouping, and what ends it is the ValueError.
HasMalformedLine ==
    \E n \in 1..Len(input_lines) :
        ~Blank(input_lines[n]) /\ SepCount(input_lines[n]) /= 1

C2_MalformedLineRaises ==
    HasMalformedLine =>
        /\ results = <<>>
        /\ pc \in {"main", "loop", "raised"}
        /\ (pc = "raised" => err = "ValueError")
        /\ (pc = "loop" => i <= Len(lines))
        /\ (pc /= "main" => \A j \in 1..(i - 1) : SepCount(lines[j]) = 1)
        /\ (pc /= "main" => TotalCount(course_dict) = i - 1)

C2_Witness ==
    /\ GroupingFailed
    /\ i > 1
    /\ SepCount(lines[i]) = 2

\* C3: for a well-formed block the grouping returns a mapping whose value
\* sequences have, together, as many elements as the block has non-blank
\* lines.
C3_CountMatches ==
    (WellFormedBlock /\ GroupingOver)
        => (Returned /\ TotalCount(results[1]) = Len(NonBlankLines))

\* C4: for a well-formed block and every subject, the sequence stored under
\* the subject is the subsequence of the course numbers of the lines with
\* that subject, in input order, repetitions kept.
C4_PerSubjectOrder ==
    (WellFormedBlock /\ GroupingOver) =>
        /\ Returned
        /\ \A sub \in KeySet(results[1])
                      \cup {SubjectOf(NonBlankLines[n]) : n \in 1..Len(NonBlankLines)} :
               (IF HasKey(results[1], sub) THEN Get(results[1], sub) ELSE <<>>)
                   = NumbersFor(sub, NonBlankLines)

\* C5: for a well-formed block the keys of the returned mapping are the
\* subjects, each once, in the order of their first appearance; and while
\* the loop runs the keys are those of the lines consumed so far, so a
\* later line never moves a key.
C5_KeyOrder ==
    /\ (WellFormedBlock /\ pc = "loop")
           => Keys(course_dict) = FirstSeen(SubSeq(lines, 1, i - 1), {})
    /\ (WellFormedBlock /\ GroupingOver)
           => (Returned /\ Keys(results[1]) = FirstSeen(NonBlankLines, {}))

\* C6: when the grouping fails on a line, the run has ended with the
\* ValueError uncaught (no step follows), subject_data.json is as it was
\* before the run and nothing was printed; the file is untouched as long as
\* the grouping has not returned.
C6_FileUntouchedOnFailure ==
    /\ GroupingFailed =>
           /\ json_file = old_file
           /\ stdout = <<>>
           /\ results = <<>>
           /\ ~ENABLED Next
    /\ pc \in {"main", "loop"} => json_file = old_file

C6_Witness ==
    /\ GroupingFailed
    /\ i > 1
    /\ old_file.exists
    /\ old_file.content /= <<>>

\* C7: the confirmation line is printed only after the grouping returned
\* and the whole JSON text is in the file, never in a run that raised, and
\* at most once; the write happens only after the grouping returned; and a
\* run whose grouping and write succeeded goes on to print it.
Written ==
    Returned /\ json_file = [exists |-> TRUE, content |-> Dumps(results[1])]

OrderedSteps ==
    /\ pc \in {"open", "dump", "print", "done"} => Returned
    /\ pc \in {"print", "done"} => Written
    /\ stdout /= <<>> => (stdout = <<Message>> /\ pc = "done" /\ Written)
    /\ pc = "done" => stdout = <<Message>>
    /\ err /= "None" => (pc = "raised" /\ stdout = <<>>)
    /\ pc = "raised" => err /= "None"

C7_GroupWriteConfirm == []OrderedSteps /\ ((pc = "print") ~> (pc = "done"))

C7_Witness ==
    /\ pc = "done"
    /\ stdout = <<Message>>
    /\ Len(results[1]) >= 2

\* C8: once the write has succeeded, parsing the content of
\* subject_data.json gives the mapping process_courses returned: the same
\* keys in the same order with the same sequences, whatever the file held.
C8_RoundTrip ==
    pc \in {"print", "done"}
        => Loads(json_file.content) = [ok |-> TRUE, val |-> results[1]]

C8_Witness ==
    /\ pc = "done"
    /\ old_file.exists
    /\ Len(results[1]) >= 2
    /\ HasKey(results[1], <<QUOTE>>)
    /\ \E n \in 1..Len(results[1]) : Len(results[1][n].val) >= 2

\* C9: two calls of process_courses on the same text return equal mappings
\* (keys, key order, value sequences); the second call leaves the first
\* result as it was; no call changes the text, the file or the output.
C9_Pure ==
    /\ [](Len(results) = 2 => results[2] = results[1])
    /\ [][/\ UNCHANGED <<courses, json_file, stdout>>
          /\ Returned => results'[1] = results[1]]_vars

C9_Witness ==
    /\ Len(results) = 2
    /\ Len(results[2]) >= 2
    /\ TotalCount(results[2]) >= 3

\* C10: after k = i - 1 lines were processed without error the keys are the
\* subjects of those lines, every key has a non-empty sequence and the
\* lengths sum to k; an iteration appends one element to the sequence of one
\* existing key, or adds one new last key with a one-element sequence, and
\* leaves every other entry as it was.
LoopInv ==
    pc /= "main" =>
        /\ KeySet(course_dict) = {SubjectOf(lines[j]) : j \in 1..(i - 1)}
        /\ \A n \in 1..Len(course_dict) : course_dict[n].val /= <<>>
        /\ \A m, n \in 1..Len(course_dict) :
               course_dict[m].key = course_dict[n].key => m = n
        /\ TotalCount(course_dict) = i - 1

IterationEffect ==
    (pc = "loop" /\ i' = i + 1) =>
        LET sub == SubjectOf(lines[i])
            num == NumberOf(lines[i])
        IN  \/ /\ HasKey(course_dict, sub)
               /\ Keys(course_dict') = Keys(course_dict)
               /\ Get(course_dict', sub) = Append(Get(course_dict, sub), num)
               /\ \A k \in KeySet(course_dict) \ {sub} :
                      Get(course_dict', k) = Get(course_dict, k)
            \/ /\ ~HasKey(course_dict, sub)
               /\ course_dict' = Append(course_dict, [key |-> sub, val |-> <<num>>])

C10_LoopInvariant == []LoopInv /\ [][IterationEffect]_vars

C10_Witness ==
    /\ pc = "loop"
    /\ i = 4
    /\ Len(course_dict) = 2

====
